---- MODULE Spec2Model ----
(***************************************************************************)
(* The conversation controller of the travel-assistant chat widget: the    *)
(* App component with contact form and suggested replies, its submit call  *)
(* and its setInterval polling loop.                                       *)
(*                                                                         *)
(* A text is a sequence of tokens (strings), so that trimming and the      *)
(* template literals of the code are computed, not assumed.  An absent     *)
(* (undefined / null) text is the empty sequence, an absent object is the  *)
(* empty sequence and a present one the one-element sequence holding it.   *)
(* A timer id returned by setInterval is the index of the send that        *)
(* created it (each accepted send creates at most one timer); 0 is null.   *)
(***************************************************************************)
EXTENDS Integers, Sequences, FiniteSets, TLC

\* ---------------------------------------------------------------- bounds
\* the longest transcript: the greeting and three turns, or the greeting,
\* two turns and two acknowledgements, ...
MaxTranscript == 7
\* the most status requests awaiting their answer at once
MaxInFlight == 2

\* ------------------------------------------------------------ text values
NULL == "null"

IsSpace(c) == c = " "

RECURSIVE TrimStart(_)
TrimStart(s) ==
    IF s # <<>> /\ IsSpace(Head(s)) THEN TrimStart(Tail(s)) ELSE s

RECURSIVE TrimEnd(_)
TrimEnd(s) ==
    IF s # <<>> /\ IsSpace(s[Len(s)]) THEN TrimEnd(SubSeq(s, 1, Len(s) - 1)) ELSE s

\* String.prototype.trim
Trim(s) == TrimEnd(TrimStart(s))

\* String.prototype.includes
Contains(text, part) ==
    \E i \in 0..(Len(text) - Len(part)) : SubSeq(text, i + 1, i + Len(part)) = part

\* what the user can type into the input box
TypedTexts == { <<" ">>, <<"Paris", " ">> }

welcomeMessage == <<"Hi! I'm Astra, your AI travel consultant.">>

\* the first of the four suggestions of the mount effect (the four buttons
\* differ in their text only)
InitialSuggestions ==
    << <<"Search for flights">> >>

ThreadIds == { "session_1" }

\* ------------------------------------------------------ transcript entries
Msg(type, text, loading, error) ==
    [type |-> type, text |-> text, isLoading |-> loading, isError |-> error]

Placeholder == Msg("bot", <<"Astra is thinking...">>, TRUE, FALSE)

ReplaceLastAppending(prev, m) == Append(prev, m)

\* prev => [...prev.slice(0, -1), m]
ReplaceLast(prev, m) == Append(SubSeq(prev, 1, Len(prev) - 1), m)

\* ------------------------------------------------- what the backend sends
\* answer to POST /chat: ok = the promise resolved; task_id "" = no task_id;
\* detail = error.response.data.detail of a rejection (<<>> when there is none)
SubmitReplies ==
    { [ok |-> TRUE,  task_id |-> "t", detail |-> <<>>],
      [ok |-> TRUE,  task_id |-> "",  detail |-> <<>>],
      [ok |-> FALSE, task_id |-> "",  detail |-> <<>>],
      [ok |-> FALSE, task_id |-> "",  detail |-> <<"Server busy">>] }

\* result of a status answer: <<>> when the field is absent
ResultReply == << [reply |-> <<"X">>, error |-> <<>>] >>
ResultError == << [reply |-> <<>>, error |-> <<"bad input">>] >>

StatusReply(ok, status, result, form) ==
    [ok |-> ok, status |-> status, result |-> result, form_to_display |-> form]

\* answer to GET /chat/status/{task_id}: ok = the promise resolved
StatusReplies ==
    { StatusReply(FALSE, "pending", <<>>, NULL),
      StatusReply(TRUE, "pending", <<>>, NULL),
      StatusReply(TRUE, "pending", <<>>, "contact_info"),
      StatusReply(TRUE, "completed", ResultReply, NULL),
      StatusReply(TRUE, "completed", ResultReply, "contact_info"),
      StatusReply(TRUE, "completed", <<>>, NULL),
      StatusReply(TRUE, "failed", ResultError, NULL),
      StatusReply(TRUE, "failed", <<>>, NULL) }

\* ------------------------------------------------------------------ state
VARIABLES
    messages,            \* useState([])      the transcript
    inputValue,          \* useState('')
    isLoading,           \* useState(false)
    threadId,            \* useState(null)
    suggestedReplies,    \* useState([])
    showContactForm,     \* useState(false)
    userInfo,            \* useState(null)    <<>> or <<[name, email]>>
    pollingIntervalRef,  \* useRef(null)      0 or a timer id
    timers,              \* the intervals of the host that are not cleared
    turns,               \* one record per accepted send: its POST, the values
                         \* its closures captured, and where its calls stand
    forms,               \* number of form submissions handled
    mounted,             \* the component is mounted
    script               \* the scripted backend: rest = the status answers it
                         \* has still to give, sent = those it gave that are
                         \* not delivered yet

vars == <<messages, inputValue, isLoading, threadId, suggestedReplies,
          showContactForm, userInfo, pollingIntervalRef, timers, turns,
          forms, mounted, script>>

Init ==
    /\ messages = <<>>
    /\ inputValue = <<>>
    /\ isLoading = FALSE
    /\ threadId = NULL
    /\ suggestedReplies = <<>>
    /\ showContactForm = FALSE
    /\ userInfo = <<>>
    /\ pollingIntervalRef = 0
    /\ timers = {}
    /\ turns = <<>>
    /\ forms = 0
    /\ mounted = TRUE
    /\ script = [rest |-> <<>>, sent |-> <<>>]

\* clearInterval(id)
ClearInterval(active, id) == active \ {id}

\* the mount effect
Mount ==
    /\ mounted
    /\ threadId = NULL
    /\ messages' = << Msg("bot", welcomeMessage, FALSE, FALSE) >>
    /\ suggestedReplies' = InitialSuggestions
    /\ \E id \in ThreadIds : threadId' = id
    /\ UNCHANGED <<inputValue, isLoading, showContactForm, userInfo,
                   pollingIntervalRef, timers, turns, forms,
                   mounted, script>>

\* onChange of the input box (the box is disabled while isLoading)
SetInputValue ==
    /\ mounted
    /\ ~isLoading
    /\ \E t \in TypedTexts : inputValue' = t
    /\ UNCHANGED <<messages, isLoading, threadId, suggestedReplies,
                   showContactForm, userInfo, pollingIntervalRef, timers,
                   turns, forms, mounted, script>>

\* ------------------------------------------------------------ the send path
SendAcceptedNoThread(messageText) ==
    Trim(messageText) # <<>> /\ ~isLoading

\* the early return of handleSendMessage, negated
SendAccepted(messageText) ==
    Trim(messageText) # <<>> /\ ~isLoading /\ threadId # NULL

\* a send event that changes nothing
Ignored == UNCHANGED vars

HandleSendMessageKeepSuggestions(messageText) ==
    IF ~SendAccepted(messageText)
    THEN Ignored
    ELSE /\ Len(messages) + 2 <= MaxTranscript
         /\ messages' = messages \o << Msg("user", messageText, FALSE, FALSE),
                                       Placeholder >>
         /\ isLoading' = TRUE
         /\ inputValue' = <<>>
         /\ turns' = Append(turns,
                [request  |-> [message |-> messageText, thread_id |-> threadId],
                 userInfo |-> userInfo,
                 pc       |-> "posting",
                 taskId   |-> "",
                 inflight |-> 0,
                 pos      |-> Len(messages) + 2])
         /\ UNCHANGED <<threadId, suggestedReplies, showContactForm, userInfo,
                        pollingIntervalRef, timers, forms, mounted, script>>

\* handleSendMessage up to its await: the POST is issued in the same step
HandleSendMessage(messageText) ==
    IF ~SendAccepted(messageText)
    THEN Ignored
    ELSE /\ Len(messages) + 2 <= MaxTranscript
         /\ messages' = messages \o << Msg("user", messageText, FALSE, FALSE),
                                       Placeholder >>
         /\ isLoading' = TRUE
         /\ inputValue' = <<>>
         /\ suggestedReplies' = <<>>
         /\ turns' = Append(turns,
                [request  |-> [message |-> messageText, thread_id |-> threadId],
                 userInfo |-> userInfo,
                 pc       |-> "posting",
                 taskId   |-> "",
                 inflight |-> 0,
                 pos      |-> Len(messages) + 2])
         /\ UNCHANGED <<threadId, showContactForm, userInfo,
                        pollingIntervalRef, timers, forms, mounted, script>>

\* the Send button (disabled while isLoading)
ClickSend ==
    /\ mounted
    /\ IF isLoading THEN Ignored ELSE HandleSendMessage(inputValue)

\* handleKeyPress with the Enter key
HandleKeyPress ==
    /\ mounted
    /\ IF ~isLoading THEN HandleSendMessage(inputValue) ELSE Ignored

HandleSuggestionSelectViaInput ==
    /\ mounted
    /\ \E i \in 1..Len(suggestedReplies) : HandleSendMessage(inputValue)

\* a button of SuggestedReplies
HandleSuggestionSelect ==
    /\ mounted
    /\ \E i \in 1..Len(suggestedReplies) : HandleSendMessage(suggestedReplies[i])

PollForResultNoRef(k) ==
    /\ timers' = ClearInterval(timers, pollingIntervalRef) \cup {k}
    /\ pollingIntervalRef' = pollingIntervalRef

\* pollForResult: clear the interval held in the ref, start a new one, hold it
PollForResult(k) ==
    /\ timers' = ClearInterval(timers, pollingIntervalRef) \cup {k}
    /\ pollingIntervalRef' = k

\* error.response?.data?.detail || "Could not connect to the assistant."
SubmitErrorText(r) ==
    IF ~r.ok /\ r.detail # <<>> THEN r.detail
    ELSE <<"Could not connect to the assistant.">>

\* the task id the backend issues for the k-th POST
TaskId(k, r) == IF r.task_id = "" THEN "" ELSE r.task_id \o ToString(k)

\* handleSendMessage after its await: the POST of send k is answered by r
SubmitCallback(k, r) ==
    /\ turns[k].pc = "posting"
    /\ IF r.ok /\ r.task_id # ""
       THEN /\ PollForResult(k)
            /\ turns' = [turns EXCEPT ![k].pc = "polling",
                                      ![k].taskId = TaskId(k, r)]
            /\ UNCHANGED <<messages, isLoading>>
       ELSE /\ isLoading' = FALSE
            /\ messages' = ReplaceLast(messages,
                               Msg("bot", SubmitErrorText(r), FALSE, TRUE))
            /\ turns' = [turns EXCEPT ![k].pc = "failed"]
            /\ UNCHANGED <<pollingIntervalRef, timers>>
    /\ UNCHANGED <<inputValue, threadId, suggestedReplies, showContactForm,
                   userInfo, forms, mounted, script>>

SubmitResponse ==
    \E k \in 1..Len(turns) : \E r \in SubmitReplies : SubmitCallback(k, r)

\* ------------------------------------------------------------ the poll loop
\* the number of status requests that are not answered yet
RECURSIVE InFlight(_)
InFlight(ts) ==
    IF ts = <<>> THEN 0 ELSE Head(ts).inflight + InFlight(Tail(ts))

\* the interval of send k fires: GET /chat/status/{taskId} is issued
IntervalFires(k) ==
    /\ k \in timers
    /\ InFlight(turns) < MaxInFlight
    /\ turns' = [turns EXCEPT ![k].inflight = @ + 1]
    /\ UNCHANGED <<messages, inputValue, isLoading, threadId,
                   suggestedReplies, showContactForm, userInfo,
                   pollingIntervalRef, timers, forms, mounted>>

Tick ==
    /\ \E k \in timers : IntervalFires(k)
    /\ UNCHANGED script

ErrorTextNoFallback(result) ==
    <<"An error occurred: ">> \o
        (IF result # <<>> THEN result[1].error ELSE <<>>)

\* `An error occurred: ${result?.error || 'Unknown error'}`
ErrorText(result) ==
    <<"An error occurred: ">> \o
        (IF result # <<>> /\ result[1].error # <<>>
         THEN result[1].error ELSE <<"Unknown error">>)

TerminalAnyStatus(r) == TRUE

\* the answer ends the polling of the task: the catch block, or the branch
\* of completed or of failed
Terminal(r) == ~r.ok \/ r.status \in {"completed", "failed"}

\* the entry the callback puts in place of the last one
Outcome(r) ==
    IF ~r.ok THEN Msg("bot", <<"Failed to get a response.">>, FALSE, TRUE)
    ELSE IF r.status = "completed"
         THEN IF r.result = <<>>
              \* result.reply throws a TypeError: the catch block runs
              THEN Msg("bot", <<"Failed to get a response.">>, FALSE, TRUE)
              ELSE Msg("bot", r.result[1].reply, FALSE, FALSE)
         ELSE Msg("bot", ErrorText(r.result), FALSE, TRUE)

FormRequestedNever(k, r) == FALSE

\* form_to_display === 'contact_info' && !userInfo, with the userInfo of the
\* render whose handleSendMessage started the interval
FormRequested(k, r) ==
    r.ok /\ r.form_to_display = "contact_info" /\ turns[k].userInfo = <<>>

\* the async interval callback after its await: a GET of send k is answered
StatusCallback(k, r) ==
    /\ turns[k].inflight > 0
    /\ IF Terminal(r)
       THEN /\ timers' = ClearInterval(timers, pollingIntervalRef)
            /\ isLoading' = FALSE
            /\ showContactForm' = FALSE
            /\ messages' = ReplaceLast(messages, Outcome(r))
            /\ turns' = [turns EXCEPT ![k].inflight = @ - 1, ![k].pc = "done"]
       ELSE /\ showContactForm' = (showContactForm \/ FormRequested(k, r))
            /\ turns' = [turns EXCEPT ![k].inflight = @ - 1]
            /\ UNCHANGED <<timers, isLoading, messages>>
    /\ UNCHANGED <<inputValue, threadId, suggestedReplies, userInfo,
                   pollingIntervalRef, forms, mounted>>

StatusResponse ==
    /\ \E k \in 1..Len(turns) : \E r \in StatusReplies : StatusCallback(k, r)
    /\ UNCHANGED script

\* ------------------------------------------------------------ the contact form
FormFields == [name : {"", "Ann"}, email : {"", "ann@example.com"}]

\* handleFormSubmit
HandleFormSubmit(data) ==
    /\ userInfo' = <<data>>
    /\ showContactForm' = FALSE
    /\ messages' = Append(messages,
           Msg("bot", <<"Thanks! I've saved your information.">>, FALSE, FALSE))
    /\ forms' = forms + 1
    /\ UNCHANGED <<inputValue, isLoading, threadId, suggestedReplies,
                   pollingIntervalRef, timers, turns, mounted, script>>

\* ContactForm.handleSubmit; the form is rendered only while showContactForm
FormSubmit ==
    /\ mounted
    /\ showContactForm
    /\ Len(messages) + 1 <= MaxTranscript
    /\ \E data \in FormFields :
          IF data.name # "" /\ data.email # ""
          THEN HandleFormSubmit(data)
          ELSE UNCHANGED vars

Next ==
    \/ Mount
    \/ SetInputValue
    \/ ClickSend
    \/ HandleKeyPress
    \/ HandleSuggestionSelect
    \/ SubmitResponse
    \/ Tick
    \/ StatusResponse
    \/ FormSubmit

Spec == Init /\ [][Next]_vars

\* the cleanup of the mount effect
Unmount ==
    /\ mounted
    /\ threadId # NULL
    /\ mounted' = FALSE
    /\ timers' = ClearInterval(timers, pollingIntervalRef)
    /\ UNCHANGED <<messages, inputValue, isLoading, threadId, suggestedReplies,
                   showContactForm, userInfo, pollingIntervalRef, turns, forms,
                   script>>

NextTeardown == Next \/ Unmount

SpecTeardown == Init /\ [][NextTeardown]_vars

\* ------------------------------------------------- the scripted round trip
\* the replies X of the scenario
ScriptReplies == { <<"X">>, <<"Y">>, <<"X", " ", "Y">> }

\* the status endpoint answers pending, pending, completed{reply: X}
Script(X) ==
    << StatusReply(TRUE, "pending", <<>>, NULL),
       StatusReply(TRUE, "pending", <<>>, NULL),
       StatusReply(TRUE, "completed", << [reply |-> X, error |-> <<>>] >>, NULL) >>

InitRoundTrip ==
    /\ messages = <<>>
    /\ inputValue = <<>>
    /\ isLoading = FALSE
    /\ threadId = NULL
    /\ suggestedReplies = <<>>
    /\ showContactForm = FALSE
    /\ userInfo = <<>>
    /\ pollingIntervalRef = 0
    /\ timers = {}
    /\ turns = <<>>
    /\ forms = 0
    /\ mounted = TRUE
    /\ \E X \in ScriptReplies : script = [rest |-> Script(X), sent |-> <<>>]

\* the one send of the scenario
FirstSend ==
    /\ turns = <<>>
    /\ (ClickSend \/ HandleKeyPress \/ HandleSuggestionSelect)

\* submit is answered with task_id "t1"
ScriptedSubmit ==
    \E k \in 1..Len(turns) :
        SubmitCallback(k, [ok |-> TRUE, task_id |-> "t", detail |-> <<>>])

\* the interval fires and the backend answers the GET with the next answer
\* of the script; a completed task stays completed
ScriptedTick ==
    /\ \E k \in timers : IntervalFires(k)
    /\ script' = [rest |-> IF Len(script.rest) > 1 THEN Tail(script.rest)
                           ELSE script.rest,
                   sent |-> Append(script.sent, Head(script.rest))]

\* s without its i-th element
Without(s, i) == SubSeq(s, 1, i - 1) \o SubSeq(s, i + 1, Len(s))

\* one of the answers on their way is delivered (they may overtake each
\* other)
ScriptedStatus ==
    \E i \in 1..Len(script.sent) :
        /\ \E k \in 1..Len(turns) : StatusCallback(k, script.sent[i])
        /\ script' = [script EXCEPT !.sent = Without(script.sent, i)]

NextRoundTrip ==
    \/ Mount
    \/ SetInputValue
    \/ FirstSend
    \/ ScriptedSubmit
    \/ ScriptedTick
    \/ ScriptedStatus

SpecRoundTrip == InitRoundTrip /\ [][NextRoundTrip]_vars

\* ------------------------------------- the synchronous variant (App.js 1-146)
\* the App component whose sendMessage awaits the reply of POST /chat itself:
\* no polling, no form, no suggestions
syncWelcomeMessage ==
    <<"Hi there! I'm Ascend's AI Assistant. How can I help you plan your trip today?">>

SyncPlaceholder == Msg("bot", <<"...">>, TRUE, FALSE)

\* answer to the POST: ok = the promise resolved, data = response.data (<<>>
\* for a null body, reply <<>> for a body without reply); else the error
\* axios throws: code, message and response (<<>> when there is none)
SyncResponse(ok, data, code, message, response) ==
    [ok |-> ok, data |-> data, code |-> code, message |-> message,
     response |-> response]

SyncReplies ==
    { SyncResponse(TRUE, << [reply |-> <<"X">>] >>, "", <<>>, <<>>),
      SyncResponse(TRUE, << [reply |-> <<>>] >>, "", <<>>, <<>>),
      SyncResponse(TRUE, <<>>, "", <<>>, <<>>),
      SyncResponse(FALSE, <<>>, "ECONNABORTED",
                   <<"timeout", " of 30000ms exceeded">>, <<>>),
      SyncResponse(FALSE, <<>>, "ETIMEDOUT", <<"connect ", "timeout">>, <<>>),
      SyncResponse(FALSE, <<>>, "ERR_NETWORK", <<"Network Error">>, <<>>),
      SyncResponse(FALSE, <<>>, "ERR_BAD_RESPONSE",
                   <<"Request failed with status code 500">>,
                   << [status |-> "500", detail |-> <<"boom">>] >>),
      SyncResponse(FALSE, <<>>, "ERR_BAD_REQUEST",
                   <<"Request failed with status code 400">>,
                   << [status |-> "400", detail |-> <<>>] >>),
      SyncResponse(FALSE, <<>>, "ERR_CANCELED", <<"canceled">>, <<>>) }

\* the mount effect
SyncMount ==
    /\ mounted
    /\ threadId = NULL
    /\ messages' = << Msg("bot", syncWelcomeMessage, FALSE, FALSE) >>
    /\ \E id \in ThreadIds : threadId' = id
    /\ UNCHANGED <<inputValue, isLoading, suggestedReplies, showContactForm,
                   userInfo, pollingIntervalRef, timers, turns, forms,
                   mounted, script>>

\* sendMessage up to its await
SendMessage ==
    IF Trim(inputValue) = <<>> \/ isLoading \/ threadId = NULL
    THEN Ignored
    ELSE /\ Len(messages) + 2 <= MaxTranscript
         /\ messages' = messages \o << Msg("user", inputValue, FALSE, FALSE),
                                       SyncPlaceholder >>
         /\ isLoading' = TRUE
         /\ inputValue' = <<>>
         /\ turns' = Append(turns,
                [request  |-> [message |-> inputValue, thread_id |-> threadId],
                 userInfo |-> userInfo,
                 pc       |-> "posting",
                 taskId   |-> "",
                 inflight |-> 0,
                 pos      |-> Len(messages) + 2])
         /\ UNCHANGED <<threadId, suggestedReplies, showContactForm, userInfo,
                        pollingIntervalRef, timers, forms, mounted, script>>

\* the Send button (disabled while isLoading)
SyncClickSend ==
    /\ mounted
    /\ IF isLoading THEN Ignored ELSE SendMessage

\* the Enter key in the input box (disabled while isLoading)
SyncKeyPress ==
    /\ mounted
    /\ IF isLoading THEN Ignored ELSE SendMessage

\* the catch block's errorText
SyncErrorText(r) ==
    IF ~r.ok /\ (r.code = "ECONNABORTED" \/ Contains(r.message, <<"timeout">>))
    THEN <<"The server is taking too long to respond. Please try again later.">>
    ELSE IF ~r.ok /\ r.code = "ERR_NETWORK"
    THEN <<"Unable to connect to the server. Please check if the backend is running and your internet connection.">>
    ELSE IF ~r.ok /\ r.response # <<>>
    THEN <<"Server Error (", r.response[1].status, "): ">> \o
            (IF r.response[1].detail # <<>> THEN r.response[1].detail
             ELSE <<"No further details.">>)
    ELSE <<"An unexpected error occurred. Please try again.">>

\* the try block ran to its end: the promise resolved and response.data.reply
\* could be read
SyncSucceeded(r) == r.ok /\ r.data # <<>>

SendMessageResponseNoFinally(k, r) ==
    /\ turns[k].pc = "posting"
    /\ messages' = ReplaceLast(messages,
          IF SyncSucceeded(r) THEN Msg("bot", r.data[1].reply, FALSE, FALSE)
          ELSE Msg("bot", SyncErrorText(r), FALSE, TRUE))
    /\ isLoading' = ~SyncSucceeded(r)
    /\ turns' = [turns EXCEPT ![k].pc = "done"]
    /\ UNCHANGED <<inputValue, threadId, suggestedReplies, showContactForm,
                   userInfo, pollingIntervalRef, timers, forms, mounted, script>>

\* sendMessage after its await: try or catch, then finally
SendMessageResponse(k, r) ==
    /\ turns[k].pc = "posting"
    /\ messages' = ReplaceLast(messages,
          IF SyncSucceeded(r) THEN Msg("bot", r.data[1].reply, FALSE, FALSE)
          ELSE Msg("bot", SyncErrorText(r), FALSE, TRUE))
    /\ isLoading' = FALSE
    /\ turns' = [turns EXCEPT ![k].pc = "done"]
    /\ UNCHANGED <<inputValue, threadId, suggestedReplies, showContactForm,
                   userInfo, pollingIntervalRef, timers, forms, mounted, script>>

SyncPostAnswered ==
    \E k \in 1..Len(turns) : \E r \in SyncReplies : SendMessageResponse(k, r)

NextSync ==
    \/ SyncMount
    \/ SetInputValue
    \/ SyncClickSend
    \/ SyncKeyPress
    \/ SyncPostAnswered

SpecSync == Init /\ [][NextSync]_vars

\* ------------------------------------------------------------------ claims
Last(ms) == ms[Len(ms)]

\* the positions of the transcript that hold a placeholder
Placeholders(ms) == { i \in 1..Len(ms) : ms[i].isLoading }

AckMessage == Msg("bot", <<"Thanks! I've saved your information.">>, FALSE, FALSE)

\* send k is still pending: its POST or its polling has not ended
Pending(k) == turns[k].pc \in {"posting", "polling"}

\* C1: an accepted send appends the user Message and one placeholder, and
\* when its turn ends (terminal status answer, or a failed request) the
\* placeholder's position holds a resolved assistant Message and isLoading
\* is false.
C1_TurnResolvesPlaceholder ==
    [][\A k \in 1..Len(turns') :
         /\ k > Len(turns) =>
               /\ messages' = messages \o
                     << Msg("user", turns'[k].request.message, FALSE, FALSE),
                        Placeholder >>
               /\ isLoading'
         /\ (k <= Len(turns) /\ Pending(k) /\ turns'[k].pc \in {"done", "failed"}) =>
               /\ messages'[turns[k].pos].type = "bot"
               /\ ~messages'[turns[k].pos].isLoading
               /\ ~isLoading']_vars

\* the controller is not Idle: a POST is in flight or a task is being polled
NotIdle ==
    \E k \in 1..Len(turns) :
        turns[k].pc = "posting" \/ (turns[k].pc = "polling" /\ k \in timers)

\* a send of this text is to be ignored
NotSendable(text) == NotIdle \/ Trim(text) = <<>> \/ threadId = NULL

\* C2: a send from the Send button, the Enter key or a suggestion button
\* while not Idle, with blank text or without a thread id changes neither
\* transcript, isLoading, suggestions nor timers, and issues no POST.
C2_RejectedSendIsNoOp ==
    [][( \/ ((ClickSend \/ HandleKeyPress) /\ NotSendable(inputValue))
         \/ \E i \in 1..Len(suggestedReplies) :
               /\ HandleSendMessage(suggestedReplies[i])
               /\ NotSendable(suggestedReplies[i]) )
       => UNCHANGED <<messages, isLoading, suggestedReplies, timers,
                      pollingIntervalRef, turns>>]_vars

\* C3: at most one interval is active, and it is the one held in
\* pollingIntervalRef (the one the next pollForResult clears).
C3_OneTimer ==
    Cardinality(timers) <= 1 /\ timers \subseteq {pollingIntervalRef}

\* a second polling cycle runs
C3_Witness ==
    Len(turns) >= 2 /\ turns[2].pc = "polling" /\ timers = {2}

\* C4: the transcript holds at most one placeholder.
C4_AtMostOnePlaceholder == Cardinality(Placeholders(messages)) <= 1

\* C5: a completed or failed status answer for the pending send replaces
\* that send's placeholder, and no placeholder remains.
C5_ReplacesPlaceholder ==
    [][\A k \in 1..Len(turns) : \A r \in StatusReplies :
         ( /\ r.ok /\ r.status \in {"completed", "failed"}
           /\ turns[k].pc = "polling"
           /\ StatusCallback(k, r) )
         => /\ messages[Len(messages)].isLoading
            /\ Len(messages) = turns[k].pos
            /\ Placeholders(messages') = {}]_vars

\* C6: an entry that is not a placeholder is never changed or removed.
C6_AppendOnly ==
    [][\A i \in 1..Len(messages) :
         ~messages[i].isLoading =>
            i <= Len(messages') /\ messages'[i] = messages[i]]_vars

\* the step ends the pending send k in failure
FailureStep(k) ==
    /\ Pending(k)
    /\ \/ \E r \in SubmitReplies :
            ~(r.ok /\ r.task_id # "") /\ SubmitCallback(k, r)
       \/ \E r \in StatusReplies :
            (~r.ok \/ r.status = "failed") /\ StatusCallback(k, r)

\* C7: every failure path turns the outstanding placeholder into an error
\* Message, clears isLoading and leaves no active timer.
C7_FailureResolves ==
    [][\A k \in 1..Len(turns) :
         FailureStep(k) =>
            /\ Placeholders(messages') = {}
            /\ messages'[turns[k].pos].isError
            /\ ~isLoading'
            /\ timers' = {}]_vars

\* C8: a POST that rejects or answers without task_id starts no timer and no
\* status request, is not retried, and puts one error Message in the place
\* of the send's placeholder.
C8_SubmitFailure ==
    [][\A k \in 1..Len(turns) : \A r \in SubmitReplies :
         (~(r.ok /\ r.task_id # "") /\ SubmitCallback(k, r)) =>
            /\ k \notin timers' /\ timers' = timers
            /\ turns'[k].inflight = 0
            /\ Len(turns') = Len(turns)
            /\ messages' = [messages EXCEPT ![turns[k].pos] =
                              Msg("bot", SubmitErrorText(r), FALSE, TRUE)]]_vars

\* the reply X of the script
ScriptedReply == Last(script.rest).result[1].reply

\* C9: with submit answered by a task id and status by pending, pending,
\* completed{reply: X}: until the completed answer is handled the transcript
\* is the greeting, the user Message and the placeholder; from then on its
\* last entry is the reply X, isLoading is false and no timer is active.
C9_RoundTrip ==
    turns # <<>> =>
        IF turns[1].pc = "done"
        THEN /\ Last(messages) = Msg("bot", ScriptedReply, FALSE, FALSE)
             /\ ~isLoading
             /\ timers = {}
        ELSE /\ isLoading
             /\ messages =
                   << Msg("bot", welcomeMessage, FALSE, FALSE),
                      Msg("user", turns[1].request.message, FALSE, FALSE),
                      Placeholder >>

\* pending, pending and completed have been given and handled
C9_Witness ==
    /\ turns # <<>> /\ turns[1].pc = "done" /\ turns[1].inflight = 0
    /\ Len(script.rest) = 1 /\ script.sent = <<>>
    /\ Last(messages).text = <<"X", " ", "Y">>

\* the status answers that report failed
FailedReplies == { r \in StatusReplies : r.ok /\ r.status = "failed" }

\* C10: a failed status answer makes the last entry an error Message whose
\* text contains result.error, or 'Unknown error' without one; the timer is
\* cancelled and isLoading is false.
C10_FailedStatus ==
    [][\A k \in 1..Len(turns) : \A r \in FailedReplies :
         StatusCallback(k, r) =>
            /\ Len(messages') = Len(messages)
            /\ Last(messages').isError
            /\ Last(messages').type = "bot"
            /\ Contains(Last(messages').text,
                  IF r.result # <<>> /\ r.result[1].error # <<>>
                  THEN r.result[1].error ELSE <<"Unknown error">>)
            /\ timers' = {}
            /\ ~isLoading']_vars

\* both kinds of failed answer have been shown
C10_Witness ==
    /\ Len(turns) = 2 /\ ~isLoading /\ timers = {}
    /\ \E i \in 1..Len(messages) :
          messages[i] = Msg("bot", <<"An error occurred: ", "bad input">>, FALSE, TRUE)
    /\ Last(messages) =
          Msg("bot", <<"An error occurred: ", "Unknown error">>, FALSE, TRUE)

\* the status answers that ask for the contact form
FormReplies == { r \in StatusReplies : r.ok /\ r.form_to_display = "contact_info" }

\* the form data the ContactForm passes on
ValidForms == { data \in FormFields : data.name # "" /\ data.email # "" }

\* submitting the form records the data, hides the form, appends one
\* acknowledgement and touches neither isLoading nor the timer
FormSubmitEffect ==
    \A data \in ValidForms :
        HandleFormSubmit(data) =>
            /\ userInfo' = <<data>>
            /\ ~showContactForm'
            /\ messages' = Append(messages, AckMessage)
            /\ UNCHANGED <<isLoading, timers, pollingIntervalRef, turns>>

\* C11 as stated: every status answer carrying form_to_display while no
\* contact info is captured makes showContactForm true, and a form
\* submission records the info, hides the form and appends one
\* acknowledgement without changing isLoading or the timer.
C11_FormFlag ==
    [][/\ \A k \in 1..Len(turns) : \A r \in FormReplies :
             (userInfo = <<>> /\ StatusCallback(k, r)) => showContactForm'
       /\ FormSubmitEffect]_vars

\* C11 amended: a status answer carrying form_to_display 'contact_info'
\* while no contact info is captured makes showContactForm true when its
\* status is pending and false when it is completed or failed; a form
\* submission records the info, hides the form and appends one
\* acknowledgement without changing isLoading or the timer.
C11_FormFlagAmended ==
    [][/\ \A k \in 1..Len(turns) : \A r \in FormReplies :
             (userInfo = <<>> /\ StatusCallback(k, r)) =>
                 (showContactForm' = ~Terminal(r))
       /\ FormSubmitEffect]_vars

\* the form was requested and submitted while the task is pending
C11_Witness ==
    /\ forms = 1 /\ userInfo # <<>> /\ ~showContactForm
    /\ Len(turns) = 1 /\ turns[1].pc = "polling" /\ isLoading
    /\ Last(messages) = AckMessage

\* C12: once contact info has been captured the form is never shown again.
C12_NoFormAfterCapture == userInfo # <<>> => ~showContactForm

\* C13: once the component is unmounted no interval is active.
C13_NoTimerAfterTeardown == ~mounted => timers = {}

\* C14: once set by the mount effect the thread id never changes, every
\* POST carries it, and no POST is issued while it is null.
C14_ThreadId ==
    [][/\ threadId # NULL => threadId' = threadId
       /\ \A k \in 1..Len(turns') :
             /\ turns'[k].request.thread_id # NULL
             /\ turns'[k].request.thread_id = threadId']_vars

\* two POSTs of the session carry the thread id
C14_Witness ==
    /\ Len(turns) = 2 /\ threadId \in ThreadIds
    /\ turns[1].request.thread_id = threadId
    /\ turns[2].request.thread_id = threadId

\* C15: the suggestions are non-empty only after the mount effect and before
\* the first accepted send; afterwards they stay empty.
C15_SuggestionsOnlyBeforeFirstSend ==
    suggestedReplies # <<>> => (threadId # NULL /\ turns = <<>>)

\* a turn was resolved and the form submitted, and the suggestions are empty
C15_Witness ==
    /\ Len(turns) = 1 /\ turns[1].pc = "done" /\ forms = 1
    /\ suggestedReplies = <<>>

\* C16: when a pending turn is resolved (completed, failed, transport error,
\* rejected POST, missing task id) the controller is Idle again with the same
\* thread id, so that a following send of non-blank text is accepted.
C16_NoErrorFatal ==
    [][\A k \in 1..Len(turns) :
         (Pending(k) /\ turns'[k].pc \in {"done", "failed"}) =>
            /\ ~NotIdle'
            /\ ~isLoading'
            /\ threadId' = threadId /\ threadId' # NULL]_vars

\* what send(text) does to the transcript, isLoading, the suggestions and
\* the POSTs: nothing when the text is blank, a send is loading or there is
\* no thread id; else the user Message, the placeholder and one POST
SendEffect(text) ==
    IF Trim(text) = <<>> \/ isLoading \/ threadId = NULL
    THEN UNCHANGED <<messages, isLoading, suggestedReplies, turns>>
    ELSE /\ messages' = messages \o
                << Msg("user", text, FALSE, FALSE), Placeholder >>
         /\ isLoading'
         /\ suggestedReplies' = <<>>
         /\ Len(turns') = Len(turns) + 1
         /\ SubSeq(turns', 1, Len(turns)) = turns
         /\ Last(turns').request = [message |-> text, thread_id |-> threadId]
         /\ Last(turns').pc = "posting"

\* C17: a click on a suggestion has the effect of send(text) for that
\* suggestion's text, the effect the Send button and the Enter key have for
\* the text of the input box.
C17_SuggestionIsSend ==
    [][/\ HandleSuggestionSelect =>
             \E i \in 1..Len(suggestedReplies) : SendEffect(suggestedReplies[i])
       /\ (ClickSend \/ HandleKeyPress) => SendEffect(inputValue)]_vars

\* one turn was started by a suggestion and one from the input box
C17_Witness ==
    /\ Len(turns) = 2
    /\ turns[1].request.message = InitialSuggestions[1]
    /\ turns[2].request.message = <<"Paris", " ">>

\* the status answers that report pending
PendingReplies == { r \in StatusReplies : r.ok /\ r.status = "pending" }

\* C18: a pending status answer changes neither the transcript nor
\* isLoading, leaves the interval and the ref as they are (the one timer of
\* a polled task keeps querying the same task id) and may change only
\* showContactForm.
C18_PendingFrame ==
    [][\A k \in 1..Len(turns) : \A r \in PendingReplies :
         StatusCallback(k, r) =>
            /\ UNCHANGED <<messages, isLoading, timers, pollingIntervalRef,
                           inputValue, threadId, suggestedReplies, userInfo>>
            /\ k \in timers => timers' = {k}
            /\ turns'[k].taskId = turns[k].taskId
            /\ turns'[k].pc = turns[k].pc]_vars

\* a pending answer was handled and the task is still polled by its timer
C18_Witness ==
    /\ Len(turns) = 1 /\ turns[1].pc = "polling" /\ turns[1].inflight = 0
    /\ showContactForm /\ timers = {1} /\ isLoading
    /\ Last(messages) = Placeholder

\* C19: while isLoading is false no interval is active (so no tick starts a
\* status request).
C19_IdleHasNoTimer == ~isLoading => timers = {}

\* C20: a status answer (or request failure) that arrives after its task
\* was resolved changes neither the transcript, isLoading, showContactForm
\* nor any timer.
C20_LateAnswerIsNoOp ==
    [][\A k \in 1..Len(turns) : \A r \in StatusReplies :
         (turns[k].pc = "done" /\ StatusCallback(k, r)) =>
            UNCHANGED <<messages, isLoading, showContactForm, timers>>]_vars

\* C21: isLoading is true exactly when the transcript holds a placeholder.
C21_LoadingIffPlaceholder == isLoading <=> (Placeholders(messages) # {})

\* C22: after the mount effect the transcript has 1 + 2 x (accepted sends)
\* + (form submissions) entries, and is never empty.
C22_TranscriptLength ==
    threadId # NULL =>
        /\ Len(messages) = 1 + 2 * Len(turns) + forms
        /\ messages # <<>>

\* two sends, one of them resolved by a status answer, and a form submission
C22_Witness ==
    /\ Len(turns) = 2 /\ forms = 1 /\ Len(messages) = 6
    /\ turns[1].pc = "done" /\ turns[2].pc = "failed"

\* C23: in the synchronous variant the answer to the POST of a send leaves
\* isLoading false and puts, in the place of that send's placeholder, the
\* backend's reply when the request succeeded and one error Message
\* otherwise; the other entries are untouched, a resolved entry is not
\* replaced again, and no timer exists.
C23_SyncSendResolves ==
    [][\A k \in 1..Len(turns) :
         /\ \A r \in SyncReplies :
               SendMessageResponse(k, r) =>
                  /\ messages[turns[k].pos] = SyncPlaceholder
                  /\ ~isLoading'
                  /\ Placeholders(messages') = {}
                  /\ Len(messages') = Len(messages)
                  /\ \A i \in 1..Len(messages) :
                        i # turns[k].pos => messages'[i] = messages[i]
                  /\ messages'[turns[k].pos].type = "bot"
                  /\ IF SyncSucceeded(r)
                     THEN /\ messages'[turns[k].pos].text = r.data[1].reply
                          /\ ~messages'[turns[k].pos].isError
                     ELSE messages'[turns[k].pos].isError
         /\ turns[k].pc = "done" => messages'[turns[k].pos] = messages[turns[k].pos]
         /\ timers' = {} /\ pollingIntervalRef' = 0]_vars

\* one send was answered with a reply and one with a server error
C23_Witness ==
    /\ Len(turns) = 2 /\ turns[2].pc = "done" /\ ~isLoading
    /\ messages[3] = Msg("bot", <<"X">>, FALSE, FALSE)
    /\ messages[5] = Msg("bot", <<"Server Error (", "500", "): ", "boom">>, FALSE, TRUE)
====
